---- MODULE Spec2Model ----
(***************************************************************************)
(* Layout inference of cupy.creation.basic: _new_like_order_and_strides,   *)
(* the order/strides/buffer decision behind empty_like and friends.        *)
(*                                                                         *)
(* An array is a record [shape, strides, itemsize]; shape and strides are  *)
(* functions over the axes 0..ndim-1, as in the source.  A dtype is        *)
(* represented by its itemsize, the only thing the function reads of it.   *)
(* None is represented by the flags strides_none / memptr = 0.             *)
(***************************************************************************)
EXTENDS Integers, FiniteSets, Sequences, Bags, TLC

VARIABLES a, dtype, order, pc, ret, allocs

vars == <<a, dtype, order, pc, ret, allocs>>

(* ------------------------------ bounds --------------------------------- *)

MaxNdim == 2

MaxDim == 2

MaxStrideMult == 2

SrcItemSize == 4

ItemSizes == {4, 8}

Orders == {"C", "F", "A", "K", "k", "None"}

(* --------------------------- array attributes -------------------------- *)

Axes(arr) == DOMAIN arr.shape

ndim(arr) == Cardinality(Axes(arr))

RECURSIVE ProdOver(_, _)
ProdOver(f, S) ==
    IF S = {} THEN 1
    ELSE LET k == CHOOSE x \in S : TRUE
         IN  f[k] * ProdOver(f, S \ {k})

size(arr) == ProdOver(arr.shape, Axes(arr))

(* Contiguity flags of an ndarray: every axis of extent other than 1 has   *)
(* the stride the canonical formula gives it; an empty array is both.      *)
c_contiguous(arr) ==
    \/ size(arr) = 0
    \/ \A k \in Axes(arr) :
          \/ arr.shape[k] = 1
          \/ arr.strides[k] =
                arr.itemsize * ProdOver(arr.shape, {j \in Axes(arr) : j > k})

f_contiguous(arr) ==
    \/ size(arr) = 0
    \/ \A k \in Axes(arr) :
          \/ arr.shape[k] = 1
          \/ arr.strides[k] =
                arr.itemsize * ProdOver(arr.shape, {j \in Axes(arr) : j < k})

(* ------------------- _new_like_order_and_strides ----------------------- *)

(* lines 29-38: 'A' and 'K' are resolved against the flags of a *)
resolve_order_no_f(arr, ord) ==
    IF ord = "A" THEN (IF f_contiguous(arr) THEN "F" ELSE "C")
    ELSE IF ord = "K" THEN
        (IF c_contiguous(arr) \/ ndim(arr) <= 1 THEN "C" ELSE "K")
    ELSE ord

resolve_order_no_ndim(arr, ord) ==
    IF ord = "A" THEN (IF f_contiguous(arr) THEN "F" ELSE "C")
    ELSE IF ord = "K" THEN
        (IF c_contiguous(arr) THEN "C"
         ELSE IF f_contiguous(arr) THEN "F"
         ELSE "K")
    ELSE ord

resolve_order(arr, ord) ==
    IF ord = "A" THEN (IF f_contiguous(arr) THEN "F" ELSE "C")
    ELSE IF ord = "K" THEN
        (IF c_contiguous(arr) \/ ndim(arr) <= 1 THEN "C"
         ELSE IF f_contiguous(arr) THEN "F"
         ELSE "K")
    ELSE ord

(* line 40: order in ['C', 'F'] *)
is_canonical_not_K(ord) == ord # "K"

is_canonical(ord) == ord \in {"C", "F"}

(* lines 49-53: the structured array of (strides, axes) records; numpy.sort *)
(* with order=['strides', 'axes'] compares records by strides, then axes.  *)
record_less(arr, j, k) ==
    \/ arr.strides[j] < arr.strides[k]
    \/ arr.strides[j] = arr.strides[k] /\ j < k

(* position of axis k's record in the ascending numpy.sort result *)
sort_position(arr, k) ==
    Cardinality({j \in Axes(arr) : record_less(arr, j, k)})

(* lines 54-55: perm = numpy.sort(tmp, order=[...])[::-1]['axes'] *)
perm_not_reversed(arr) ==
    [p \in Axes(arr) |->
        CHOOSE k \in Axes(arr) : sort_position(arr, k) = p]

perm(arr) ==
    [p \in Axes(arr) |->
        CHOOSE k \in Axes(arr) : sort_position(arr, k) = ndim(arr) - 1 - p]

(* lines 59-64: for idim in range(ndim - 1, -1, -1) *)
RECURSIVE fill_loop(_, _, _, _, _)
fill_loop(arr, pm, idim, stride, strides) ==
    IF idim < 0 THEN strides
    ELSE LET i_perm == pm[idim]
         IN  fill_loop(arr, pm, idim - 1, stride * arr.shape[i_perm],
                       [strides EXCEPT ![i_perm] = stride])

RECURSIVE fill_loop_shape_idim(_, _, _, _, _)
fill_loop_shape_idim(arr, pm, idim, stride, strides) ==
    IF idim < 0 THEN strides
    ELSE LET i_perm == pm[idim]
         IN  fill_loop_shape_idim(arr, pm, idim - 1, stride * arr.shape[idim],
                                  [strides EXCEPT ![i_perm] = stride])

RECURSIVE fill_loop_forward(_, _, _, _, _)
fill_loop_forward(arr, pm, idim, stride, strides) ==
    IF idim >= ndim(arr) THEN strides
    ELSE LET i_perm == pm[idim]
         IN  fill_loop_forward(arr, pm, idim + 1, stride * arr.shape[i_perm],
                               [strides EXCEPT ![i_perm] = stride])

fill_strides_shape_idim(arr, dt, pm) ==
    fill_loop_shape_idim(arr, pm, ndim(arr) - 1, dt, [k \in Axes(arr) |-> 0])

fill_strides_forward(arr, dt, pm) ==
    fill_loop_forward(arr, pm, 0, dt, [k \in Axes(arr) |-> 0])

fill_strides(arr, dt, pm) ==
    fill_loop(arr, pm, ndim(arr) - 1, dt, [k \in Axes(arr) |-> 0])

(* line 66: cupy.empty(a.size, dtype=dtype) is a.size elements of dtype *)
buffer_nbytes_src_itemsize(arr, dt) == size(arr) * arr.itemsize

buffer_nbytes(arr, dt) == size(arr) * dt

(* ------------------------------ inputs --------------------------------- *)

SourcesOfNdim(n) ==
    { [shape    |-> sh,
       strides  |-> [k \in 0 .. n - 1 |-> m[k] * SrcItemSize],
       itemsize |-> SrcItemSize] :
        sh \in [0 .. n - 1 -> 0 .. MaxDim],
        m \in [0 .. n - 1 -> (-MaxStrideMult) .. MaxStrideMult] }

(* views of a 4-byte array of shape (2,3,4): transposed (among them the   *)
(* C- and the F-contiguous one), reversed, broadcast or repeated axes      *)
Shape234 == [k \in 0 .. 2 |-> k + 2]

ViewStrides234 == {-16, 0, 4, 8, 16, 24, 48}

Views234 ==
    { [shape |-> Shape234, strides |-> st, itemsize |-> 4] :
        st \in [0 .. 2 -> ViewStrides234] }

ExampleSrc ==
    [shape |-> Shape234, strides |-> (0 :> 4 @@ 1 :> 48 @@ 2 :> 16),
     itemsize |-> 4]

Sources == UNION { SourcesOfNdim(n) : n \in 0 .. MaxNdim } \cup Views234

NoRet == [order |-> "", strides_none |-> TRUE, strides |-> <<>>, memptr |-> 0]

(* --------------------------- state machine ----------------------------- *)

Init ==
    /\ a \in Sources
    /\ dtype \in ItemSizes
    /\ order \in Orders
    /\ pc = "call"
    /\ ret = NoRet
    /\ allocs = <<>>

(* lines 40-41: return order, None, None *)
ReturnCanonical ==
    /\ pc = "call"
    /\ is_canonical(resolve_order(a, order))
    /\ ret' = [order |-> resolve_order(a, order), strides_none |-> TRUE,
               strides |-> <<>>, memptr |-> 0]
    /\ pc' = "returned"
    /\ UNCHANGED <<a, dtype, order, allocs>>

(* lines 43-67: explicit strides over a freshly allocated buffer *)
ReturnExplicit ==
    /\ pc = "call"
    /\ ~ is_canonical(resolve_order(a, order))
    /\ resolve_order(a, order) = "K"
    /\ allocs' = Append(allocs, buffer_nbytes(a, dtype))
    /\ ret' = [order |-> "C", strides_none |-> FALSE,
               strides |-> fill_strides(a, dtype, perm(a)),
               memptr |-> Len(allocs) + 1]
    /\ pc' = "returned"
    /\ UNCHANGED <<a, dtype, order>>

(* lines 68-69: raise TypeError('order not understood') *)
RaiseTypeError ==
    /\ pc = "call"
    /\ ~ is_canonical(resolve_order(a, order))
    /\ resolve_order(a, order) # "K"
    /\ pc' = "raised"
    /\ UNCHANGED <<a, dtype, order, ret, allocs>>

Next == ReturnCanonical \/ ReturnExplicit \/ RaiseTypeError

Spec == Init /\ [][Next]_vars

(* ----------------------- vocabulary of the claims ---------------------- *)

(* the call went through the explicit-stride branch of order 'K' *)
InExplicitBranch ==
    /\ pc = "returned"
    /\ order = "K"
    /\ ndim(a) >= 2
    /\ ~ c_contiguous(a)
    /\ ~ f_contiguous(a)

(* canonical row-major strides of a shape for an element size *)
RowMajorStrides(shape, elemsize) ==
    [k \in DOMAIN shape |->
        elemsize * ProdOver(shape, {j \in DOMAIN shape : j > k})]

(* the shape read along a permutation of the axes *)
PermutedShape(arr, pm) == [p \in Axes(arr) |-> arr.shape[pm[p]]]

(* sorted position of axis k in a permutation *)
PositionIn(pm, k) == CHOOSE p \in DOMAIN pm : pm[p] = k

(* the multiset of the values of a function *)
BagOfValues(f) ==
    [v \in {f[k] : k \in DOMAIN f} |->
        Cardinality({k \in DOMAIN f : f[k] = v})]

RECURSIVE MaxOf(_)
MaxOf(S) ==
    IF S = {} THEN 0
    ELSE LET x == CHOOSE y \in S : TRUE
             m == MaxOf(S \ {x})
         IN  IF x > m THEN x ELSE m

IndexTuples(shape) ==
    { idx \in [DOMAIN shape -> 0 .. MaxOf({shape[k] : k \in DOMAIN shape})] :
        \A k \in DOMAIN shape : idx[k] < shape[k] }

RECURSIVE ByteOffsetOver(_, _, _)
ByteOffsetOver(idx, strides, S) ==
    IF S = {} THEN 0
    ELSE LET k == CHOOSE x \in S : TRUE
         IN  idx[k] * strides[k] + ByteOffsetOver(idx, strides, S \ {k})

ByteOffset(idx, strides) == ByteOffsetOver(idx, strides, DOMAIN strides)

Negated(arr, k) == [arr EXCEPT !.strides[k] = - arr.strides[k]]

(* ------------------------------- claims -------------------------------- *)

(* C1: in the explicit branch, two axes i < j of equal source stride are   *)
(* ordered i before j in the permutation, and new_stride[j] <=             *)
(* new_stride[i] (ties broken by ascending axis index).                    *)
C1_TiesAscendingAxis ==
    InExplicitBranch =>
        \A i, j \in Axes(a) :
            (i < j /\ a.strides[i] = a.strides[j]) =>
                /\ PositionIn(perm(a), i) < PositionIn(perm(a), j)
                /\ ret.strides[j] <= ret.strides[i]

(* C2 as stated: in the explicit branch the multiset of returned strides   *)
(* is the multiset of canonical row-major strides of the source's shape.   *)
C2_BagOfRowMajorOfShape ==
    InExplicitBranch =>
        BagOfValues(ret.strides) = BagOfValues(RowMajorStrides(a.shape, dtype))

(* C2 amended: in the explicit branch the multiset of returned strides is  *)
(* the multiset of canonical row-major strides of the shape read along the *)
(* sorted axis permutation.                                                *)
C2_BagOfRowMajorOfPermutedShape ==
    InExplicitBranch =>
        BagOfValues(ret.strides) =
            BagOfValues(RowMajorStrides(PermutedShape(a, perm(a)), dtype))

C2_Witness ==
    /\ InExplicitBranch
    /\ BagOfValues(ret.strides) # BagOfValues(RowMajorStrides(a.shape, dtype))
    /\ ndim(a) = 3

(* C3: a source with ndim <= 1 gets order 'C', no strides and no buffer,   *)
(* for order 'K' and for order 'A'.                                        *)
C3_LowDimIsRowMajor ==
    (pc # "call" /\ ndim(a) <= 1 /\ order \in {"K", "A"}) =>
        /\ pc = "returned"
        /\ ret.order = "C"
        /\ ret.strides_none
        /\ ret.memptr = 0
        /\ allocs = <<>>

(* C4 as stated: order 'K' on any F-contiguous source with ndim >= 2,      *)
(* also one that is C-contiguous as well, gives 'F' without strides.       *)
C4_FContiguousGivesF ==
    (pc # "call" /\ order = "K" /\ ndim(a) >= 2 /\ f_contiguous(a)) =>
        /\ pc = "returned"
        /\ ret.order = "F"
        /\ ret.strides_none
        /\ ret.memptr = 0

(* C4 amended: order 'K' on a source with ndim >= 2 that is F-contiguous   *)
(* and not C-contiguous gives 'F' without strides or buffer; a source that *)
(* is C-contiguous as well gives 'C'.                                      *)
C4_OnlyFContiguousGivesF ==
    (pc # "call" /\ order = "K" /\ ndim(a) >= 2 /\ f_contiguous(a)) =>
        /\ pc = "returned"
        /\ ret.order = (IF c_contiguous(a) THEN "C" ELSE "F")
        /\ ret.strides_none
        /\ ret.memptr = 0
        /\ allocs = <<>>

C4_Witness ==
    /\ pc = "returned"
    /\ order = "K"
    /\ ndim(a) >= 2
    /\ f_contiguous(a)
    /\ ~ c_contiguous(a)
    /\ ret.order = "F"

(* C5: an order other than 'C', 'F', 'A', 'K' ends in the TypeError, with  *)
(* no layout decision returned and no buffer allocated.                    *)
C5_UnknownOrderRaises ==
    (pc # "call" /\ order \notin {"C", "F", "A", "K"}) =>
        /\ pc = "raised"
        /\ ret = NoRet
        /\ allocs = <<>>

C5_Witness ==
    /\ pc = "raised"
    /\ order \in {"k", "None"}
    /\ ndim(a) >= 2
    /\ ~ c_contiguous(a)

(* C6: in the explicit branch the buffer is size * itemsize(dtype) bytes   *)
(* and the returned strides map the index tuples one-to-one onto the       *)
(* offsets 0, itemsize, ..., (size - 1) * itemsize.                        *)
C6_DenseNonOverlapping ==
    InExplicitBranch =>
        /\ allocs = <<size(a) * dtype>>
        /\ ret.memptr = 1
        /\ \A x, y \in IndexTuples(a.shape) :
              ByteOffset(x, ret.strides) = ByteOffset(y, ret.strides) => x = y
        /\ {ByteOffset(x, ret.strides) : x \in IndexTuples(a.shape)} =
              {i * dtype : i \in 0 .. size(a) - 1}

C6_Witness ==
    /\ InExplicitBranch
    /\ size(a) >= 4
    /\ dtype # a.itemsize
    /\ allocs = <<size(a) * dtype>>

(* C7: in the explicit branch the axis at sorted position p receives       *)
(* itemsize(dtype) times the product of the extents of the axes at later   *)
(* sorted positions; shape (2,3,4), strides (4,48,16), element size 4      *)
(* gives permutation [1,2,0], strides [4,32,8] and a 96-byte buffer.       *)
C7_StridesAlongPermutation ==
    InExplicitBranch =>
        /\ \A p \in Axes(a) :
              ret.strides[perm(a)[p]] =
                 dtype * ProdOver(PermutedShape(a, perm(a)),
                                  {q \in Axes(a) : q > p})
        /\ (a = ExampleSrc /\ dtype = 4) =>
              /\ perm(a) = (0 :> 1 @@ 1 :> 2 @@ 2 :> 0)
              /\ ret.strides = (0 :> 4 @@ 1 :> 32 @@ 2 :> 8)
              /\ allocs = <<96>>

C7_Witness ==
    /\ InExplicitBranch
    /\ a = ExampleSrc
    /\ dtype = 4
    /\ ret.strides = (0 :> 4 @@ 1 :> 32 @@ 2 :> 8)

(* C8: in the explicit branch, for non-negative source strides and extents *)
(* >= 1, a larger source stride never gets a smaller new stride (strictly  *)
(* larger when the other axis has extent > 1), and strictly decreasing     *)
(* source strides give the canonical row-major strides.                    *)
C8_AxisOrderKept ==
    (/\ InExplicitBranch
     /\ \A k \in Axes(a) : a.strides[k] >= 0 /\ a.shape[k] >= 1) =>
        /\ \A i, j \in Axes(a) :
              a.strides[i] > a.strides[j] =>
                 /\ ret.strides[i] >= ret.strides[j]
                 /\ a.shape[j] > 1 => ret.strides[i] > ret.strides[j]
        /\ (\A i, j \in Axes(a) : i < j => a.strides[i] > a.strides[j]) =>
              ret.strides = RowMajorStrides(a.shape, dtype)

C8_Witness ==
    /\ InExplicitBranch
    /\ \A k \in Axes(a) : a.strides[k] >= 0 /\ a.shape[k] > 1
    /\ \A i, j \in Axes(a) : i < j => a.strides[i] > a.strides[j]
    /\ ret.strides = RowMajorStrides(a.shape, dtype)

(* C9: in the explicit branch, negating one axis's source stride (when the *)
(* negated source reaches the explicit branch too) changes neither the     *)
(* permutation nor the returned strides.                                   *)
C9_SignOfStrideIgnored ==
    InExplicitBranch =>
        \A k \in Axes(a) :
            (~ c_contiguous(Negated(a, k)) /\ ~ f_contiguous(Negated(a, k))) =>
                /\ perm(Negated(a, k)) = perm(a)
                /\ fill_strides(Negated(a, k), dtype, perm(Negated(a, k)))
                      = ret.strides

(* C10: a buffer is allocated exactly when order is 'K' and the source has *)
(* ndim >= 2 and is neither C- nor F-contiguous, and then the order tag is *)
(* 'C'; every other call with order C, F, A or K returns an order in       *)
(* {C, F} with no strides and no buffer.                                   *)
C10_AllocationOnlyWhenExplicit ==
    /\ (allocs # <<>>) <=> InExplicitBranch
    /\ InExplicitBranch =>
          /\ ret.order = "C"
          /\ ~ ret.strides_none
          /\ ret.memptr = Len(allocs)
    /\ (pc # "call" /\ order \in {"C", "F", "A", "K"} /\ ~ InExplicitBranch) =>
          /\ pc = "returned"
          /\ ret.order \in {"C", "F"}
          /\ ret.strides_none
          /\ ret.memptr = 0

C10_Witness ==
    /\ InExplicitBranch
    /\ ndim(a) = 2
    /\ Len(allocs) = 1
    /\ ret.order = "C"
    /\ ret.memptr = 1

====
